---------------------------- MODULE Spec2Model ----------------------------
(***************************************************************************)
(* Model of the msxml3 schema cache (dlls/msxml3/schema.c): schema_cache  *)
(* collections, reference-counted cache_entry objects, and the            *)
(* IXMLDOMSchemaCollection operations add / get / remove / length /       *)
(* namespaceURI / addCollection / AddRef / Release.                       *)
(***************************************************************************)
EXTENDS Integers, Sequences, FiniteSets, TLC

(* ---------------------------- bounds ----------------------------------- *)
\* number of cache_entry objects that may be constructed in one behaviour
MaxEntries == 2
\* cap on a collection's own COM reference count
MaxCollRef == 2
\* cap on outstanding document views per entry
MaxViews == 1
\* number of hash table insertions that may fail for lack of memory
MaxNoMem == 1
\* threads that can each own one reference to a shared cache_entry
NumOwners == 3
\* cache_entry_add_ref calls made on the shared cache_entry
MaxAddRefs == 4

(* ------------------------- program constants --------------------------- *)
\* a null pointer (cache_entry* / xmlDocPtr / BSTR)
NULL == 0

XSD_schema == "schema"
XSD_nsURI == "http://www.w3.org/2001/XMLSchema"
XDR_schema == "Schema"
XDR_nsURI == "urn:schemas-microsoft-com:xml-data"

\* enum _SCHEMA_TYPE
SCHEMA_TYPE == {"SCHEMA_TYPE_INVALID", "SCHEMA_TYPE_XDR", "SCHEMA_TYPE_XSD"}

\* the HRESULTs the operations return; FAULT is an access violation
HRESULT == {"S_OK", "E_FAIL", "E_INVALIDARG", "E_POINTER", "FAULT"}

(* --------------------------- input domains ----------------------------- *)
\* the schema_cache objects created by SchemaCache_create
Colls == {"c1", "c2"}
\* namespace URIs used as keys
Uris == {"urn:a", "urn:b"}
\* the order in which xmlHashScan visits the buckets holding these keys
ScanOrder == <<"urn:a", "urn:b">>

\* root elements of the documents handed to add(): <<name, namespace href>>,
\* "none" for a root without namespace, NoRoot for an empty document
NoRoot == <<"", "noroot">>
Roots == { <<XSD_schema, XSD_nsURI>>, <<XDR_schema, XDR_nsURI>>,
           <<XDR_schema, XSD_nsURI>>, <<XSD_schema, "none">> }

\* the VARIANT handed to add(): vt, and what the payload resolves to
\*   VT_BSTR:     ctx = parser context created, compiles = xmlSchemaParse ok
\*   VT_DISPATCH: handle = what the IDispatch is, root = the document's root,
\*                compiles = xmlSchemaParse of the copied document succeeds
Src(vt, ctx, compiles, handle, root) ==
    [vt |-> vt, ctx |-> ctx, compiles |-> compiles, handle |-> handle, root |-> root]
Sources ==
    { Src("VT_NULL", FALSE, FALSE, "none", NoRoot),
      Src("VT_I4", FALSE, FALSE, "none", NoRoot) }
    \cup { Src("VT_BSTR", TRUE, b, "none", NoRoot) : b \in BOOLEAN }
    \cup { Src("VT_BSTR", FALSE, FALSE, "none", NoRoot) }
    \cup { Src("VT_DISPATCH", FALSE, TRUE, "document", r) : r \in Roots }
    \cup { Src("VT_DISPATCH", FALSE, FALSE, "document", <<XSD_schema, XSD_nsURI>>) }
    \cup { Src("VT_DISPATCH", FALSE, FALSE, h, NoRoot) : h \in {"element", "notnode"} }

\* indexes handed to get_namespaceURI (a LONG)
Indexes == (0 - 1) .. Cardinality(Uris)

VARIABLES
    cref,       \* schema_cache.ref of each collection (0: freed)
    cache,      \* schema_cache.cache: uri -> cache_entry id, NULL if absent
    entries,    \* the cache_entry objects constructed so far, by id
    nalloc,     \* number of cache_entry objects constructed so far
    last,       \* the last call made and what it returned
    crashed,    \* the process has taken an access violation
    nomems,     \* number of hash table insertions that found no memory so far
    thr,        \* the threads inside cache_entry_add_ref / cache_entry_release
    det         \* the root handed to schema_type_from_xmlDocPtr and its verdict

vars == <<cref, cache, entries, nalloc, last, crashed, nomems, thr, det>>

EntryIds == 1 .. MaxEntries

\* no document is being classified
NoDetect == [root |-> NoRoot, type |-> "unknown"]

Owners == 1 .. NumOwners

\* where each thread stands in cache_entry_release (pc), the value its
\* InterlockedDecrement returned (loc: the local LONG ref), the calls of
\* cache_entry_add_ref / cache_entry_release made so far, and whether a thread
\* accessed the entry after another thread had begun its teardown (late)
NoThreads == [pc |-> [o \in Owners |-> "none"], loc |-> [o \in Owners |-> 0],
              adds |-> 0, rels |-> 0, late |-> FALSE]

\* a cache_entry slot not yet constructed
NoEntry == [alloc |-> FALSE, type |-> "SCHEMA_TYPE_INVALID", ref |-> 0, freed |-> 0,
            schema |-> "none", sdoc |-> FALSE, docref |-> 0, docfreed |-> 0, views |-> 0,
            log |-> <<>>]

\* what a call leaves behind: the method called, the HRESULT it returned, what
\* it stored through its output pointer (for add: the cache_entry it
\* constructed) and the entry it took out of the table (NULL: none)
Call(op, c, uri, arg, hr, out) ==
    [op |-> op, hr |-> hr, out |-> out, old |-> NULL]

Replaced(call, old) == [call EXCEPT !.old = old]


(* ------------------- document reference counting ----------------------- *)
\* xmldoc_add_ref: one more holder of the entry's backing document
xmldoc_add_ref(E, e) == [E EXCEPT ![e].docref = @ + 1]

\* xmldoc_release: one holder less; the document is freed when none is left
xmldoc_release(E, e) ==
    LET r == E[e].docref - 1
    IN  [E EXCEPT ![e].docref = r,
                  ![e].docfreed = IF r = 0 THEN @ + 1 ELSE @]

\* xmlSchemaFree: frees the compiled schema, and the document it still points to
xmlSchemaFree(E, e) ==
    [E EXCEPT ![e].schema = "freed",
              ![e].docfreed = IF E[e].sdoc THEN @ + 1 ELSE @,
              ![e].sdoc = FALSE]

Logged(E, e, what) == [E EXCEPT ![e].log = Append(@, what)]

(* ------------------------ cache_entry lifecycle ------------------------ *)
cache_entry_add_ref(E, e) == [E EXCEPT ![e].ref = @ + 1]

\* mutant: the compiled schema is not detached from the document
TeardownStatement_NoDetach(E, e, pc) ==
    CASE pc = "td_doc"    -> Logged(xmldoc_release(E, e), e, "xmldoc_release")
      [] pc = "td_detach" -> Logged(E, e, "schema_detach")
      [] pc = "td_schema" -> Logged(xmlSchemaFree(E, e), e, "xmlSchemaFree")
      [] pc = "td_free"   -> Logged([E EXCEPT ![e].freed = @ + 1], e, "heap_free")

\* one statement of the teardown of an entry whose count reached 0 (pc names
\* the statement), and the statement that follows it
TeardownStatement(E, e, pc) ==
    CASE pc = "td_doc"    -> Logged(xmldoc_release(E, e), e, "xmldoc_release")
      [] pc = "td_detach" -> Logged([E EXCEPT ![e].sdoc = FALSE], e, "schema_detach")
      [] pc = "td_schema" -> Logged(xmlSchemaFree(E, e), e, "xmlSchemaFree")
      [] pc = "td_free"   -> Logged([E EXCEPT ![e].freed = @ + 1], e, "heap_free")

\* mutant: the entry struct is freed right after the document reference
TeardownNext_FreeFirst(E, e, pc) ==
    CASE pc = "td_doc"    -> "td_free"
      [] pc = "td_free"   -> IF E[e].type = "SCHEMA_TYPE_XSD" THEN "td_detach" ELSE "none"
      [] pc = "td_detach" -> "td_schema"
      [] pc = "td_schema" -> "none"

TeardownNext(E, e, pc) ==
    CASE pc = "td_doc"    -> IF E[e].type = "SCHEMA_TYPE_XSD" THEN "td_detach" ELSE "td_free"
      [] pc = "td_detach" -> "td_schema"
      [] pc = "td_schema" -> "td_free"
      [] pc = "td_free"   -> "none"

RECURSIVE RunTeardown(_, _, _)
RunTeardown(E, e, pc) ==
    IF pc = "none" THEN E
    ELSE RunTeardown(TeardownStatement(E, e, pc), e, TeardownNext(E, e, pc))

\* teardown of an entry whose count reached 0
EntryTeardown(E, e) == RunTeardown(E, e, "td_doc")

cache_entry_release(E, e) ==
    LET E1 == [E EXCEPT ![e].ref = @ - 1]
    IN  IF E1[e].ref = 0 THEN EntryTeardown(E1, e) ELSE E1

\* mutant: the deallocator drops the payload without releasing it
cache_free_Leak(E, data) == E

\* cache_free: the deallocator handed to xmlHashRemoveEntry / xmlHashFree
cache_free(E, data) == cache_entry_release(E, data)

(* --------------------------- dialect detector -------------------------- *)
\* mutant: the namespace of the root element is not looked at
schema_type_from_xmlDocPtr_NameOnly(root) ==
    IF root # NoRoot /\ root[2] # "none"
    THEN IF root[1] = XDR_schema THEN "SCHEMA_TYPE_XDR"
         ELSE IF root[1] = XSD_schema THEN "SCHEMA_TYPE_XSD"
         ELSE "SCHEMA_TYPE_INVALID"
    ELSE "SCHEMA_TYPE_INVALID"

schema_type_from_xmlDocPtr(root) ==
    IF root # NoRoot /\ root[2] # "none"
    THEN IF root[1] = XDR_schema /\ root[2] = XDR_nsURI THEN "SCHEMA_TYPE_XDR"
         ELSE IF root[1] = XSD_schema /\ root[2] = XSD_nsURI THEN "SCHEMA_TYPE_XSD"
         ELSE "SCHEMA_TYPE_INVALID"
    ELSE "SCHEMA_TYPE_INVALID"

(* --------------------------- construction paths ------------------------ *)
\* a freshly constructed Modern entry: ref 0, compiled schema pointing at the
\* document, document wrapped (xmldoc_init) and referenced once for the entry
NewXsdEntry ==
    [alloc |-> TRUE, type |-> "SCHEMA_TYPE_XSD", ref |-> 0, freed |-> 0,
     schema |-> "live", sdoc |-> TRUE, docref |-> 1, docfreed |-> 0, views |-> 0,
     log |-> <<>>]

\* a freshly constructed Legacy entry: no compiled schema
NewXdrEntry ==
    [alloc |-> TRUE, type |-> "SCHEMA_TYPE_XDR", ref |-> 0, freed |-> 0,
     schema |-> "none", sdoc |-> FALSE, docref |-> 1, docfreed |-> 0, views |-> 0,
     log |-> <<>>]

\* each constructor gives the constructed cache_entry, NoEntry standing for
\* the NULL it returns when construction failed
cache_entry_from_url(src) ==
    IF src.ctx
    THEN IF src.compiles THEN NewXsdEntry ELSE NoEntry
    ELSE NoEntry

\* mutant: the result of xmlSchemaParse is not checked
cache_entry_from_xsd_doc_NoCheck(src) == NewXsdEntry

cache_entry_from_xsd_doc(src) ==
    IF src.compiles THEN NewXsdEntry ELSE NoEntry

cache_entry_from_xdr_doc(src) == NewXdrEntry

(* ------------------------------ hash table ----------------------------- *)
\* An xmlHashTable: tab maps each name to its payload (NULL: no such name),
\* nbElems is the element counter the table keeps.
xmlHashLookup(T, name) == T.tab[name]

xmlHashSize(T) == T.nbElems

\* mutant: the entry is removed without the deallocator being called
xmlHashRemoveEntry_NoDealloc(T, E, name) ==
    IF T.tab[name] = NULL
    THEN <<T, E>>
    ELSE <<[tab |-> [T.tab EXCEPT ![name] = NULL], nbElems |-> T.nbElems - 1], E>>

\* xmlHashRemoveEntry(table, name, cache_free): gives <<table, entries>>;
\* a name that is not stored leaves both as they were
xmlHashRemoveEntry(T, E, name) ==
    IF T.tab[name] = NULL
    THEN <<T, E>>
    ELSE <<[tab |-> [T.tab EXCEPT ![name] = NULL], nbElems |-> T.nbElems - 1],
           cache_free(E, T.tab[name])>>

\* xmlHashAddEntry(table, name, entry): fails on a duplicate name, or when the
\* table cannot allocate (mem = FALSE); the table is then left as it was
xmlHashAddEntry(T, name, e, mem) ==
    IF mem /\ T.tab[name] = NULL
    THEN [tab |-> [T.tab EXCEPT ![name] = e], nbElems |-> T.nbElems + 1]
    ELSE T

\* xmlHashFree(table, cache_free): every stored entry is handed to cache_free
RECURSIVE HashFreeFrom(_, _, _)
HashFreeFrom(T, E, i) ==
    IF i > Len(ScanOrder) THEN E
    ELSE LET data == T.tab[ScanOrder[i]]
         IN  HashFreeFrom(T, IF data = NULL THEN E ELSE cache_free(E, data), i + 1)

\* mutant: the table is freed without calling the deallocator on its payloads
xmlHashFree_NoDealloc(T, E) == E

xmlHashFree(T, E) == HashFreeFrom(T, E, 1)

\* xmlHashCreate: an empty table
xmlHashCreate == [tab |-> [u \in Uris |-> NULL], nbElems |-> 0]

(* ------------------------------ Init ----------------------------------- *)
\* SchemaCache_create has run once for each collection: ref 1, empty table
Init ==
    /\ cref = [c \in Colls |-> 1]
    /\ cache = [c \in Colls |-> xmlHashCreate]
    /\ entries = [e \in EntryIds |-> NoEntry]
    /\ nalloc = 0
    /\ last = Call("create", "c1", "", NULL, "S_OK", NULL)
    /\ crashed = FALSE
    /\ nomems = 0
    /\ thr = NoThreads
    /\ det = NoDetect

\* a caller can only call through an interface pointer it still holds
Live(c) == ~crashed /\ cref[c] > 0

(* --------------------------- schema_cache_add -------------------------- *)
\* what dereferencing a null pointer can end in: an access violation, or the
\* read going through and the call carrying on to its E_INVALIDARG return
NullDerefOutcomes == {"FAULT", "E_INVALIDARG"}

\* the entry the VT_BSTR / VT_DISPATCH branch constructs (NoEntry: NULL)
ConstructEntry(src) ==
    IF src.vt = "VT_BSTR" THEN cache_entry_from_url(src)
    ELSE LET type == schema_type_from_xmlDocPtr(src.root)
         IN  IF type = "SCHEMA_TYPE_XSD" THEN cache_entry_from_xsd_doc(src)
             ELSE IF type = "SCHEMA_TYPE_XDR" THEN cache_entry_from_xdr_doc(src)
             ELSE NoEntry

\* mutant: the new entry is inserted before the old one is removed
ReplaceEntry_InsertFirst(T, E, name, entry, mem) ==
    LET E1 == cache_entry_add_ref(E, entry)
        T1 == xmlHashAddEntry(T, name, entry, mem)
    IN  xmlHashRemoveEntry(T1, E1, name)

\* mutant: the old entry is dropped from the table without being released
ReplaceEntry_NoRelease(T, E, name, entry, mem) ==
    LET E1 == cache_entry_add_ref(E, entry)
        T1 == [tab |-> [T.tab EXCEPT ![name] = entry],
               nbElems |-> IF T.tab[name] = NULL THEN T.nbElems + 1 ELSE T.nbElems]
    IN  <<T1, E1>>

\* the tail both branches share: add_ref the entry, remove the old one, insert
\* gives <<table, entries>>
ReplaceEntry(T, E, name, entry, mem) ==
    LET E1 == cache_entry_add_ref(E, entry)
        R  == xmlHashRemoveEntry(T, E1, name)
    IN  <<xmlHashAddEntry(R[1], name, entry, mem), R[2]>>

Add(c, uri, src, Mem) ==
    /\ Live(c)
    /\ CASE src.vt = "VT_NULL" ->
              LET R == xmlHashRemoveEntry(cache[c], entries, uri)
              IN  /\ cache' = [cache EXCEPT ![c] = R[1]]
                  /\ entries' = R[2]
                  /\ last' = Replaced(Call("add", c, uri, src, "S_OK", NULL),
                                       xmlHashLookup(cache[c], uri))
                  /\ UNCHANGED <<cref, nalloc, crashed, nomems, thr, det>>
         [] src.vt = "VT_DISPATCH" /\ src.handle # "document" ->
              \* domnode is NULL (not a DOM node) and is released through, or
              \* xmlNodePtr_from_domnode gave NULL and ->doc is read from it
              /\ \E ub \in NullDerefOutcomes :
                    /\ last' = Call("add", c, uri, src, ub, NULL)
                    /\ crashed' = (ub = "FAULT")
              /\ UNCHANGED <<cref, cache, entries, nalloc, nomems, thr, det>>
         [] src.vt \in {"VT_BSTR", "VT_DISPATCH"}
               /\ (src.vt = "VT_DISPATCH" => src.handle = "document") ->
              LET new == ConstructEntry(src)
                  id  == nalloc + 1
              IN  IF ~new.alloc
                  THEN /\ last' = Call("add", c, uri, src, "E_FAIL", NULL)
                       /\ UNCHANGED <<cref, cache, entries, nalloc, crashed, nomems, thr, det>>
                  ELSE /\ nalloc < MaxEntries
                       /\ \E mem \in Mem :
                            LET R == ReplaceEntry(cache[c], [entries EXCEPT ![id] = new],
                                                  uri, id, mem)
                            IN  /\ ~mem => nomems < MaxNoMem
                                /\ nomems' = IF mem THEN nomems ELSE nomems + 1
                                /\ cache' = [cache EXCEPT ![c] = R[1]]
                                /\ entries' = R[2]
                       /\ nalloc' = id
                       /\ last' = Replaced(Call("add", c, uri, src, "S_OK", id),
                                            xmlHashLookup(cache[c], uri))
                       /\ UNCHANGED <<cref, crashed, thr, det>>
         [] OTHER ->
              /\ last' = Call("add", c, uri, src, "E_INVALIDARG", NULL)
              /\ UNCHANGED <<cref, cache, entries, nalloc, crashed, nomems, thr, det>>

(* --------------------------- schema_cache_get -------------------------- *)
\* DOMDocument_create_from_xmldoc: a new document view over the entry's
\* document, which takes its own reference on the document
DOMDocument_create_from_xmldoc(E, e) ==
    [xmldoc_add_ref(E, e) EXCEPT ![e].views = @ + 1]

\* mutant: a uri that is not stored is reported as a failure
GetResult_AbsentFails(c, uri, hasOut) ==
    IF ~hasOut THEN <<"E_POINTER", NULL>>
    ELSE LET entry == xmlHashLookup(cache[c], uri)
         IN  <<IF entry = NULL THEN "E_FAIL" ELSE "S_OK", entry>>

\* what get(uri) returns in the present state: <<hr, node>>
GetResult(c, uri, hasOut) ==
    IF ~hasOut THEN <<"E_POINTER", NULL>>
    ELSE LET entry == xmlHashLookup(cache[c], uri)
         IN  <<"S_OK", entry>>

Get(c, uri, hasOut) ==
    /\ Live(c)
    /\ LET res == GetResult(c, uri, hasOut)
       IN  /\ res[2] # NULL => entries[res[2]].views < MaxViews
           /\ entries' = IF res[2] # NULL
                         THEN DOMDocument_create_from_xmldoc(entries, res[2])
                         ELSE entries
           /\ last' = Call("get", c, uri, hasOut, res[1], res[2])
    /\ UNCHANGED <<cref, cache, nalloc, crashed, nomems, thr, det>>

\* the caller drops a document view it got from get()
ReleaseView(e) ==
    /\ ~crashed
    /\ entries[e].views > 0
    /\ entries' = [xmldoc_release(entries, e) EXCEPT ![e].views = @ - 1]
    /\ last' = Call("releaseView", "c1", "", e, "S_OK", NULL)
    /\ UNCHANGED <<cref, cache, nalloc, crashed, nomems, thr, det>>

(* -------------------------- schema_cache_remove ------------------------ *)
\* mutant: the failure xmlHashRemoveEntry reports for an absent name is returned
Remove_FailIfAbsent(c, uri) ==
    /\ Live(c)
    /\ LET R == xmlHashRemoveEntry(cache[c], entries, uri)
       IN  /\ cache' = [cache EXCEPT ![c] = R[1]]
           /\ entries' = R[2]
    /\ last' = Replaced(Call("remove", c, uri, NULL,
                              IF xmlHashLookup(cache[c], uri) = NULL
                              THEN "E_FAIL" ELSE "S_OK", NULL),
                         xmlHashLookup(cache[c], uri))
    /\ UNCHANGED <<cref, nalloc, crashed, nomems, thr, det>>

Remove(c, uri) ==
    /\ Live(c)
    /\ LET R == xmlHashRemoveEntry(cache[c], entries, uri)
       IN  /\ cache' = [cache EXCEPT ![c] = R[1]]
           /\ entries' = R[2]
    /\ last' = Replaced(Call("remove", c, uri, NULL, "S_OK", NULL),
                         xmlHashLookup(cache[c], uri))
    /\ UNCHANGED <<cref, nalloc, crashed, nomems, thr, det>>

(* ------------------------ schema_cache_get_length ---------------------- *)
\* mutant: the test of the output pointer is inverted
LengthResult_Inverted(c, hasOut) ==
    IF hasOut THEN <<"E_POINTER", NULL>>
    ELSE <<"S_OK", xmlHashSize(cache[c])>>

\* <<hr, *length>>
LengthResult(c, hasOut) ==
    IF ~hasOut THEN <<"E_POINTER", NULL>>
    ELSE <<"S_OK", xmlHashSize(cache[c])>>

GetLength(c, hasOut) ==
    /\ Live(c)
    /\ LET res == LengthResult(c, hasOut)
       IN  last' = Call("length", c, "", hasOut, res[1], res[2])
    /\ UNCHANGED <<cref, cache, entries, nalloc, crashed, nomems, thr, det>>

(* --------------------- schema_cache_get_namespaceURI ------------------- *)
\* xmlHashScan with cache_index: index_data = <<index, out>>; every stored
\* name is visited in bucket order, the one visited when index is 0 is copied out
RECURSIVE ScanIndexFrom(_, _, _, _)
ScanIndexFrom(T, index, out, i) ==
    IF i > Len(ScanOrder) THEN out
    ELSE IF T.tab[ScanOrder[i]] = NULL THEN ScanIndexFrom(T, index, out, i + 1)
    ELSE ScanIndexFrom(T, index - 1, IF index = 0 THEN ScanOrder[i] ELSE out, i + 1)

\* <<hr, *len>>; "" stands for the NULL BSTR
NamespaceURIResult(c, index, hasOut) ==
    IF ~hasOut THEN <<"E_POINTER", "">>
    ELSE IF index >= xmlHashSize(cache[c]) THEN <<"E_FAIL", "">>
    ELSE <<"S_OK", ScanIndexFrom(cache[c], index, "", 1)>>

GetNamespaceURI(c, index, hasOut) ==
    /\ Live(c)
    /\ LET res == NamespaceURIResult(c, index, hasOut)
       IN  last' = Call("namespaceURI", c, "", index, res[1], res[2])
    /\ UNCHANGED <<cref, cache, entries, nalloc, crashed, nomems, thr, det>>

(* ---------------------- schema_cache_addCollection --------------------- *)
\* mutant: the entry is inserted into dest without taking a reference
cache_copy_NoAddRef(T, E, data, name, mem) ==
    IF xmlHashLookup(T, name) = NULL
    THEN <<xmlHashAddEntry(T, name, data, mem), E>>
    ELSE <<T, E>>

\* mutant: a name dest already holds is overwritten with the source's entry
cache_copy_Overwrite(T, E, data, name, mem) ==
    LET R == xmlHashRemoveEntry(T, cache_entry_add_ref(E, data), name)
    IN  <<xmlHashAddEntry(R[1], name, data, mem), R[2]>>

\* cache_copy(data, dest, name): gives <<dest's table, entries>>;
\* mem = FALSE when the insertion into dest cannot allocate
cache_copy(T, E, data, name, mem) ==
    IF xmlHashLookup(T, name) = NULL
    THEN <<xmlHashAddEntry(T, name, data, mem), cache_entry_add_ref(E, data)>>
    ELSE <<T, E>>

\* xmlHashScan(That->cache, cache_copy, This): C is every collection's table,
\* nomem the names whose insertion cannot allocate; gives <<C, entries>>
RECURSIVE ScanCopyFrom(_, _, _, _, _, _)
ScanCopyFrom(C, E, this, that, nomem, i) ==
    IF i > Len(ScanOrder) THEN <<C, E>>
    ELSE LET name == ScanOrder[i]
             data == C[that].tab[name]
         IN  IF data = NULL THEN ScanCopyFrom(C, E, this, that, nomem, i + 1)
             ELSE LET R == cache_copy(C[this], E, data, name, name \notin nomem)
                  IN  ScanCopyFrom([C EXCEPT ![this] = R[1]], R[2],
                                   this, that, nomem, i + 1)

\* the names cache_copy tried to insert into this and could not
FailedInserts(this, that, nomem) ==
    {u \in nomem : cache[that].tab[u] # NULL /\ cache[this].tab[u] = NULL}

\* the HRESULT addCollection returns once the scan is over
AddCollectionResult(failed) == "S_OK"

AddCollection(c, other, nomem) ==
    /\ Live(c)
    /\ IF other = "null"
       THEN /\ nomem = {}
            /\ last' = Call("addCollection", c, "", other, "E_POINTER", {})
            /\ UNCHANGED <<cache, entries, nomems>>
       ELSE /\ Live(other)
            /\ LET R == ScanCopyFrom(cache, entries, c, other, nomem, 1)
                   failed == FailedInserts(c, other, nomem)
               IN  /\ failed = nomem
                   /\ nomems + Cardinality(failed) <= MaxNoMem
                   /\ nomems' = nomems + Cardinality(failed)
                   /\ cache' = R[1]
                   /\ entries' = R[2]
                   /\ last' = Call("addCollection", c, "", other,
                                   AddCollectionResult(failed), failed)
    /\ UNCHANGED <<cref, nalloc, crashed, thr, det>>

(* ------------------- schema_cache_AddRef / _Release -------------------- *)
AddRef(c) ==
    /\ Live(c)
    /\ cref[c] < MaxCollRef
    /\ cref' = [cref EXCEPT ![c] = @ + 1]
    /\ last' = Call("AddRef", c, "", NULL, "S_OK", cref[c] + 1)
    /\ UNCHANGED <<cache, entries, nalloc, crashed, nomems, thr, det>>

Release(c) ==
    /\ Live(c)
    /\ LET ref == cref[c] - 1
       IN  /\ cref' = [cref EXCEPT ![c] = ref]
           /\ IF ref = 0
              THEN /\ entries' = xmlHashFree(cache[c], entries)
                   /\ cache' = [cache EXCEPT ![c] = xmlHashCreate]
              ELSE UNCHANGED <<cache, entries>>
           /\ last' = Call("Release", c, "", NULL, "S_OK", ref)
    /\ UNCHANGED <<nalloc, crashed, nomems, thr, det>>

(* --------------------------- specifications ---------------------------- *)
\* Every call a client can make; Mem is the set of outcomes the hash table's
\* allocations can have ({TRUE}: memory is always available).
Calls(Mem) ==
    \/ \E c \in Colls, uri \in Uris, src \in Sources : Add(c, uri, src, Mem)
    \/ \E c \in Colls, uri \in Uris, hasOut \in BOOLEAN : Get(c, uri, hasOut)
    \/ \E e \in EntryIds : ReleaseView(e)
    \/ \E c \in Colls, uri \in Uris : Remove(c, uri)
    \/ \E c \in Colls, hasOut \in BOOLEAN : GetLength(c, hasOut)
    \/ \E c \in Colls, index \in Indexes, hasOut \in BOOLEAN :
          GetNamespaceURI(c, index, hasOut)
    \/ \E c \in Colls, other \in Colls \cup {"null"},
          nomem \in {m \in SUBSET Uris : m = {} \/ FALSE \in Mem} :
          AddCollection(c, other, nomem)
    \/ \E c \in Colls : AddRef(c)
    \/ \E c \in Colls : Release(c)

\* memory is always available to the hash table
Next == Calls({TRUE})

Spec == Init /\ [][Next]_vars

\* an insertion into the hash table may fail for lack of memory
NextNoMem == Calls(BOOLEAN)

SpecNoMem == Init /\ [][NextNoMem]_vars

(* ---------------- cache_entry reference counting by threads ------------- *)
\* One cache_entry shared by threads that each may own one reference (a slot of
\* a collection the thread is working on).  InterlockedIncrement and
\* InterlockedDecrement are single steps; every statement of the teardown that
\* follows a decrement to 0 is a step of its own.
Shared == 1

TdPcs == {"td_doc", "td_detach", "td_schema", "td_free"}

\* an access to the entry by thread o comes late if the entry is already freed
\* or another thread has begun tearing it down
Late(o) ==
    \/ thr.late
    \/ entries[Shared].freed > 0
    \/ \E t \in Owners \ {o} : thr.pc[t] \in TdPcs

\* mutant: the increment reads the count in one step and writes it in another
ThrAddRef_NonAtomic(o) ==
    /\ \/ /\ thr.pc[o] = "none"
          /\ thr.adds < MaxAddRefs
          /\ thr.adds = 0 \/ \E h \in Owners : thr.pc[h] = "holding"
          /\ thr' = [thr EXCEPT !.pc[o] = "inc", !.loc[o] = entries[Shared].ref,
                                !.adds = @ + 1, !.late = Late(o)]
          /\ UNCHANGED entries
       \/ /\ thr.pc[o] = "inc"
          /\ entries' = [entries EXCEPT ![Shared].ref = thr.loc[o] + 1]
          /\ thr' = [thr EXCEPT !.pc[o] = "holding", !.late = Late(o)]
    /\ UNCHANGED <<cref, cache, nalloc, last, crashed, nomems, det>>

\* cache_entry_add_ref by a thread that takes a reference of its own: the
\* entry is fresh (the first reference, taken by add before the entry is
\* stored) or some owner holds a reference at that moment (cache_copy reads
\* the entry out of a slot that holds one)
ThrAddRef(o) ==
    /\ thr.pc[o] = "none"
    /\ thr.adds < MaxAddRefs
    /\ thr.adds = 0 \/ \E h \in Owners : thr.pc[h] = "holding"
    /\ entries' = cache_entry_add_ref(entries, Shared)
    /\ thr' = [thr EXCEPT !.pc[o] = "holding", !.adds = @ + 1, !.late = Late(o)]
    /\ UNCHANGED <<cref, cache, nalloc, last, crashed, nomems, det>>

\* cache_entry_release, first statement: LONG ref = InterlockedDecrement(&entry->ref)
ThrDecrement(o) ==
    /\ thr.pc[o] = "holding"
    /\ entries' = [entries EXCEPT ![Shared].ref = @ - 1]
    /\ thr' = [thr EXCEPT !.pc[o] = "dec", !.loc[o] = entries[Shared].ref - 1,
                          !.rels = @ + 1, !.late = Late(o)]
    /\ UNCHANGED <<cref, cache, nalloc, last, crashed, nomems, det>>

\* mutant: the test reads entry->ref again instead of the decrement's result
RefSeenByRelease_Reread(o) == entries[Shared].ref

\* the value `if (ref == 0)` tests: the local the decrement returned
RefSeenByRelease(o) == thr.loc[o]

\* cache_entry_release, `if (ref == 0)`: tear down or return
ThrTest(o) ==
    /\ thr.pc[o] = "dec"
    /\ thr' = [thr EXCEPT !.pc[o] = IF RefSeenByRelease(o) = 0 THEN "td_doc" ELSE "none"]
    /\ UNCHANGED <<cref, cache, entries, nalloc, last, crashed, nomems, det>>

ThrTeardown(o) ==
    /\ thr.pc[o] \in TdPcs
    /\ entries' = TeardownStatement(entries, Shared, thr.pc[o])
    /\ thr' = [thr EXCEPT !.pc[o] = TeardownNext(entries, Shared, thr.pc[o]),
                          !.late = Late(o)]
    /\ UNCHANGED <<cref, cache, nalloc, last, crashed, nomems, det>>

\* a Modern or a Legacy entry has just been constructed (count 0)
InitThreads ==
    /\ cref = [c \in Colls |-> 1]
    /\ cache = [c \in Colls |-> xmlHashCreate]
    /\ entries \in { [e \in EntryIds |-> IF e = Shared THEN new ELSE NoEntry] :
                        new \in {NewXsdEntry, NewXdrEntry} }
    /\ nalloc = 1
    /\ last = Call("create", "c1", "", NULL, "S_OK", NULL)
    /\ crashed = FALSE
    /\ nomems = 0
    /\ thr = NoThreads
    /\ det = NoDetect

NextThreads ==
    \/ \E o \in Owners : ThrAddRef(o)
    \/ \E o \in Owners : ThrDecrement(o)
    \/ \E o \in Owners : ThrTest(o)
    \/ \E o \in Owners : ThrTeardown(o)

SpecThreads == InitThreads /\ [][NextThreads]_vars

(* ------------------------- the dialect detector ------------------------- *)
\* element names and namespace names a document's root can carry; "none": the
\* root has no namespace
DetectNames == {XSD_schema, XDR_schema, "SCHEMA", "sChema", "schemas", "Schem",
                "element", "xs:schema"}

DetectNs == {XSD_nsURI, XDR_nsURI, "none",
             "HTTP://WWW.W3.ORG/2001/XMLSCHEMA", "URN:SCHEMAS-MICROSOFT-COM:XML-DATA",
             "http://www.w3.org/2001/XMLSchema-instance", "urn:other"}

DetectRoots == {NoRoot} \cup {<<n, ns>> : n \in DetectNames, ns \in DetectNs}

\* add() hands a document to the detector
LoadDocument(root) ==
    /\ det.type # "unknown"
    /\ det' = [root |-> root, type |-> "unknown"]
    /\ UNCHANGED <<cref, cache, entries, nalloc, last, crashed, nomems, thr>>

\* SCHEMA_TYPE type = schema_type_from_xmlDocPtr(doc)
Detect ==
    /\ det.type = "unknown"
    /\ det' = [det EXCEPT !.type = schema_type_from_xmlDocPtr(det.root)]
    /\ UNCHANGED <<cref, cache, entries, nalloc, last, crashed, nomems, thr>>

InitDetect ==
    /\ cref = [c \in Colls |-> 1]
    /\ cache = [c \in Colls |-> xmlHashCreate]
    /\ entries = [e \in EntryIds |-> NoEntry]
    /\ nalloc = 0
    /\ last = Call("create", "c1", "", NULL, "S_OK", NULL)
    /\ crashed = FALSE
    /\ nomems = 0
    /\ thr = NoThreads
    /\ det \in {[root |-> r, type |-> "unknown"] : r \in DetectRoots}

NextDetect ==
    \/ Detect
    \/ \E root \in DetectRoots : LoadDocument(root)

SpecDetect == InitDetect /\ [][NextDetect]_vars

(* ------------------------------ claims --------------------------------- *)
\* a source add() can build an entry from: a URL that parses and compiles, or
\* a document whose root makes it Modern (XSD) or Legacy (XDR)
ValidSource(src) ==
    \/ src.vt = "VT_BSTR" /\ src.ctx /\ src.compiles
    \/ /\ src.vt = "VT_DISPATCH" /\ src.handle = "document"
       /\ schema_type_from_xmlDocPtr(src.root) \in {"SCHEMA_TYPE_XSD", "SCHEMA_TYPE_XDR"}

ValidSources == {src \in Sources : ValidSource(src)}

\* the uris namespaceURI(i) enumerates for the indexes 0 .. length()-1
Enumerated(c) ==
    {NamespaceURIResult(c, i, TRUE)[2] : i \in 0 .. (LengthResult(c, TRUE)[2] - 1)}

\* C1: after add(uri, source) returned S_OK for a valid source, get(uri) on the
\* same collection returns S_OK with a non-null document that is alive, uri is
\* among the uris length()/namespaceURI() count, and when the collection was
\* empty before the call its length() is 1.
C1_AddThenGet ==
    [][(last'.op = "add" /\ last'.hr = "S_OK") =>
       \A c \in Colls, uri \in Uris, src \in ValidSources :
          Add(c, uri, src, {TRUE})
          => /\ GetResult(c, uri, TRUE)'[1] = "S_OK"
             /\ GetResult(c, uri, TRUE)'[2] # NULL
             /\ entries'[GetResult(c, uri, TRUE)'[2]].docfreed = 0
             /\ uri \in Enumerated(c)'
             /\ LengthResult(c, TRUE)'[1] = "S_OK"
             /\ (xmlHashSize(cache[c]) = 0 => LengthResult(c, TRUE)'[2] = 1)
      ]_vars

\* C1 witness: an add has just built and stored an entry in a collection that
\* then holds exactly that one entry
C1_Witness ==
    /\ last.op = "add" /\ last.hr = "S_OK" /\ last.out # NULL
    /\ \E c \in Colls, u \in Uris :
          /\ cache[c].tab[u] = last.out
          /\ xmlHashSize(cache[c]) = 1
          /\ cref[c] > 0

\* the dialect tag an entry built from src carries
BuiltType(src) ==
    IF src.vt = "VT_BSTR" THEN "SCHEMA_TYPE_XSD"
    ELSE schema_type_from_xmlDocPtr(src.root)

\* the (collection, uri) slots other than (c, uri) whose payload is entry e
OtherHolders(c, uri, e) ==
    {s \in Colls \X Uris : s # <<c, uri>> /\ cache[s[1]].tab[s[2]] = e}

\* C2: an add(uri, B) that returns S_OK while uri holds the entry A of an
\* earlier add leaves one entry at uri, the fresh one built from B (length
\* unchanged, A nowhere in this collection); A's count has gone down by exactly
\* one, and A has been torn down, once, iff no other collection held it.
C2_ReplaceSemantics ==
    [][(last'.op = "add" /\ last'.hr = "S_OK" /\ last'.out # NULL) =>
       \A c \in Colls, uri \in Uris, src \in ValidSources :
          (cache[c].tab[uri] # NULL /\ Add(c, uri, src, {TRUE}))
          => LET A == cache[c].tab[uri]
                 B == last'.out
             IN  /\ B # A /\ ~entries[B].alloc
                 /\ cache'[c].tab[uri] = B
                 /\ {u \in Uris : cache'[c].tab[u] \in {A, B}} = {uri}
                 /\ xmlHashSize(cache'[c]) = xmlHashSize(cache[c])
                 /\ entries'[B].type = BuiltType(src)
                 /\ entries'[B].ref = 1 /\ entries'[B].freed = 0
                 /\ entries'[A].ref = entries[A].ref - 1
                 /\ entries'[A].freed =
                       IF OtherHolders(c, uri, A) = {} THEN entries[A].freed + 1
                       ELSE entries[A].freed
                 /\ entries'[A].freed <= 1
      ]_vars

\* C2 witness: an add has replaced entry A by a fresh entry while another
\* collection still holds A, which is therefore alive with one reference less
C2_Witness ==
    /\ last.op = "add" /\ last.hr = "S_OK" /\ last.out # NULL /\ last.old # NULL
    /\ entries[last.old].freed = 0 /\ entries[last.old].ref = 1
    /\ \E c \in Colls, u \in Uris : cache[c].tab[u] = last.old
    /\ \E c \in Colls, u \in Uris : cache[c].tab[u] = last.out

\* C2 witness for the other branch: the replaced entry had no other holder
\* and has been torn down
C2_WitnessTornDown ==
    /\ last.op = "add" /\ last.hr = "S_OK" /\ last.out # NULL /\ last.old # NULL
    /\ entries[last.old].freed = 1 /\ entries[last.old].ref = 0

\* C3: no cache entry is torn down more than once, a torn-down entry is not
\* touched again (its count stays 0), and no live collection maps a uri to an
\* entry that is not constructed or has been torn down.
C3_FreedExactlyOnce ==
    /\ \A e \in EntryIds :
          /\ entries[e].freed <= 1
          /\ entries[e].freed = 1 => entries[e].ref = 0
          /\ entries[e].ref = 0 /\ entries[e].alloc => entries[e].freed = 1
    /\ \A c \in Colls, u \in Uris :
          (cref[c] > 0 /\ cache[c].tab[u] # NULL)
          => /\ entries[cache[c].tab[u]].alloc
             /\ entries[cache[c].tab[u]].freed = 0
             /\ entries[cache[c].tab[u]].ref >= 1

\* C3 witness: a collection has just been destroyed; an entry it shared with
\* the other collection survives there, and another entry has been torn down
C3_Witness ==
    /\ last.op = "Release" /\ last.out = 0
    /\ \E e \in EntryIds : entries[e].freed = 1
    /\ \E c \in Colls, u \in Uris :
          /\ cref[c] > 0 /\ cache[c].tab[u] # NULL
          /\ entries[cache[c].tab[u]].ref = 1
          /\ entries[cache[c].tab[u]].freed = 0

\* C4: after addCollection(other) on self has returned S_OK: every uri of other
\* that self lacked now maps in self to other's very entry, whose count grew
\* by exactly one; every uri self already had keeps its entry; every other
\* entry, other's table and all other tables are as they were.
C4_AddCollection ==
    [][(last'.op = "addCollection" /\ last'.hr = "S_OK") =>
       \A c \in Colls, other \in Colls :
          AddCollection(c, other, {})
          => LET copied == {u \in Uris : cache[other].tab[u] # NULL
                                         /\ cache[c].tab[u] = NULL}
                 shared == {cache[other].tab[u] : u \in copied}
             IN  /\ \A u \in copied : cache'[c].tab[u] = cache[other].tab[u]
                 /\ \A u \in Uris \ copied : cache'[c].tab[u] = cache[c].tab[u]
                 /\ \A e \in shared :
                       entries'[e] = [entries[e] EXCEPT !.ref = @ + 1]
                 /\ \A e \in EntryIds \ shared : entries'[e] = entries[e]
                 /\ cache'[other].tab = cache[other].tab
                 /\ \A o \in Colls \ {c} : cache'[o] = cache[o]
                 /\ xmlHashSize(cache'[c]) = xmlHashSize(cache[c]) + Cardinality(copied)
      ]_vars

\* C4 witness: addCollection has just run, one uri is now shared by both
\* collections (count 2) and another uri of self kept its own entry
C4_Witness ==
    /\ last.op = "addCollection" /\ last.hr = "S_OK"
    /\ \E c \in Colls, o \in Colls, u \in Uris, v \in Uris :
          /\ c # o /\ u # v
          /\ cache[c].tab[u] # NULL /\ cache[c].tab[u] = cache[o].tab[u]
          /\ entries[cache[c].tab[u]].ref = 2
          /\ cache[c].tab[v] # NULL /\ cache[o].tab[v] # cache[c].tab[v]

\* C5 (as claimed): namespaceURI(i) never returns S_OK for an index below 0
\* or at or above length().
C5_IndexOutsideRangeIsError ==
    [][(last'.op = "namespaceURI") =>
       \A c \in Colls, index \in Indexes :
          (/\ GetNamespaceURI(c, index, TRUE)
           /\ (index < 0 \/ index >= LengthResult(c, TRUE)[2]))
          => last'.hr # "S_OK"
      ]_vars

\* a source add() cannot build an entry from: a URL that does not parse or
\* compile, a document of Invalid dialect, a Modern document that does not compile
FailingSource(src) ==
    \/ src.vt = "VT_BSTR" /\ ~(src.ctx /\ src.compiles)
    \/ /\ src.vt = "VT_DISPATCH" /\ src.handle = "document"
       /\ \/ schema_type_from_xmlDocPtr(src.root) = "SCHEMA_TYPE_INVALID"
          \/ schema_type_from_xmlDocPtr(src.root) = "SCHEMA_TYPE_XSD" /\ ~src.compiles

FailingSources == {src \in Sources : FailingSource(src)}

\* C6: an add whose source fails to parse or compile, or whose document has an
\* Invalid dialect, returns E_FAIL and leaves every table (key set, entry at
\* uri), every entry (reference counts) and every collection count as it was.
C6_FailedAddKeepsState ==
    [][(last'.op = "add") =>
       \A c \in Colls, uri \in Uris, src \in FailingSources :
          Add(c, uri, src, {TRUE})
          => /\ last'.hr = "E_FAIL"
             /\ cache' = cache
             /\ entries' = entries
             /\ cref' = cref /\ nalloc' = nalloc
      ]_vars

\* C6 witness: an add has just failed with E_FAIL on a collection that holds
\* an entry
C6_Witness ==
    /\ last.op = "add" /\ last.hr = "E_FAIL"
    /\ \E c \in Colls, u \in Uris :
          cache[c].tab[u] # NULL /\ entries[cache[c].tab[u]].ref = 1

\* a source that is no usable shape: a VT_DISPATCH that is not a DOM node or
\* not a document-bearing node, or a VARIANT of any other type
BadShape(src) ==
    \/ src.vt = "VT_DISPATCH" /\ src.handle # "document"
    \/ src.vt \notin {"VT_NULL", "VT_BSTR", "VT_DISPATCH"}

BadShapes == {src \in Sources : BadShape(src)}

\* C7 (as claimed): add with a handle that resolves to no document-bearing
\* node, or with any other source shape, returns E_INVALIDARG, the call
\* completes without fault and the collection is unchanged.
C7_BadShapeIsInvalidArg ==
    [][(last'.op = "add") =>
       \A c \in Colls, uri \in Uris, src \in BadShapes :
          Add(c, uri, src, {TRUE})
          => /\ last'.hr = "E_INVALIDARG"
             /\ ~crashed'
             /\ cache' = cache /\ entries' = entries
      ]_vars

\* the position at which xmlHashScan visits a uri
ScanPos(u) == CHOOSE i \in 1 .. Len(ScanOrder) : ScanOrder[i] = u

\* the uris of other that self lacks and the scan copies before it comes to
\* the first uri whose insertion fails
CopiedBeforeFailure(c, other, nomem) ==
    {u \in Uris \ nomem :
        /\ cache[other].tab[u] # NULL /\ cache[c].tab[u] = NULL
        /\ \A f \in nomem : ScanPos(u) < ScanPos(f)}

\* C8 (as claimed): when addCollection has copied some uris and an insertion
\* into self then fails, the uris copied before the failure stay in self and
\* the call does not return S_OK.
C8_PartialCopyReportsFailure ==
    [][(last'.op = "addCollection") =>
       \A c \in Colls, other \in Colls, nomem \in SUBSET Uris :
          (/\ nomem # {}
           /\ CopiedBeforeFailure(c, other, nomem) # {}
           /\ AddCollection(c, other, nomem))
          => /\ \A u \in CopiedBeforeFailure(c, other, nomem) :
                   cache'[c].tab[u] = cache[other].tab[u]
             /\ last'.hr # "S_OK"
      ]_vars

\* the number of distinct uris a collection stores
NumKeys(c) == Cardinality({u \in Uris : cache[c].tab[u] # NULL})

\* C9: before and after every call, length() of every collection is the
\* number of distinct uris it stores; an add that replaces the entry of a uri
\* already present leaves length() as it was.
C9_LengthIsKeyCount ==
    [][/\ \A c \in Colls : LengthResult(c, TRUE) = <<"S_OK", NumKeys(c)>>
       /\ \A c \in Colls : LengthResult(c, TRUE)' = <<"S_OK", NumKeys(c)'>>
       /\ (last'.op = "add" /\ last'.hr = "S_OK" /\ last'.out # NULL) =>
             \A c \in Colls, uri \in Uris, src \in Sources :
                (cache[c].tab[uri] # NULL /\ Add(c, uri, src, {TRUE}))
                => /\ LengthResult(c, TRUE)' = LengthResult(c, TRUE)
                   /\ NumKeys(c)' = NumKeys(c)
      ]_vars

\* C9 witness: an add has just replaced the entry of a uri, and length() of
\* that collection is still 1
C9_Witness ==
    /\ last.op = "add" /\ last.hr = "S_OK" /\ last.out # NULL /\ last.old # NULL
    /\ \E c \in Colls, u \in Uris :
          cache[c].tab[u] = last.out /\ LengthResult(c, TRUE) = <<"S_OK", 1>>

NullSources == {src \in Sources : src.vt = "VT_NULL"}

\* C10: add(uri, Null) returns S_OK whether or not uri is present, get(uri)
\* then returns S_OK with a null result, an entry that was present has lost
\* exactly the collection's reference (and is torn down when that was the
\* last), and no other slot or entry changes.
C10_AddNullRemoves ==
    [][(last'.op = "add" /\ last'.out = NULL) =>
       \A c \in Colls, uri \in Uris, src \in NullSources :
          Add(c, uri, src, {TRUE})
          => LET old == cache[c].tab[uri]
             IN  /\ last'.hr = "S_OK"
                 /\ GetResult(c, uri, TRUE)' = <<"S_OK", NULL>>
                 /\ \A s \in (Colls \X Uris) \ {<<c, uri>>} :
                       cache'[s[1]].tab[s[2]] = cache[s[1]].tab[s[2]]
                 /\ \A e \in EntryIds \ {old} : entries'[e] = entries[e]
                 /\ old # NULL =>
                       /\ entries'[old].ref = entries[old].ref - 1
                       /\ entries'[old].freed =
                             IF entries[old].ref = 1 THEN 1 ELSE 0
      ]_vars

\* C10 witness: add(uri, Null) has just taken an entry out of a collection,
\* and that entry, held by no one else, has been torn down
C10_Witness ==
    /\ last.op = "add" /\ last.hr = "S_OK" /\ last.out = NULL /\ last.old # NULL
    /\ entries[last.old].freed = 1

\* C11: remove(uri) returns S_OK whether or not uri is present and leaves
\* uri absent; a remove of an absent uri (so also the second of two removes in
\* a row) changes no table, no length() and no entry; a remove of a present
\* uri releases exactly one reference of its entry and touches no other entry.
C11_RemoveIdempotent ==
    [][(last'.op = "remove") =>
       \A c \in Colls, uri \in Uris :
          Remove(c, uri)
          => LET old == cache[c].tab[uri]
             IN  /\ last'.hr = "S_OK"
                 /\ cache'[c].tab[uri] = NULL
                 /\ old = NULL =>
                       /\ cache' = cache /\ entries' = entries
                       /\ LengthResult(c, TRUE)' = LengthResult(c, TRUE)
                 /\ old # NULL =>
                       /\ entries'[old].ref = entries[old].ref - 1
                       /\ entries'[old].freed <= 1
                       /\ \A e \in EntryIds \ {old} : entries'[e] = entries[e]
                       /\ LengthResult(c, TRUE)'[2] = LengthResult(c, TRUE)[2] - 1
      ]_vars

\* C11 witness: a remove of a uri that is absent has just returned S_OK, in a
\* state where an earlier remove has emptied the tables and torn an entry down
C11_Witness ==
    /\ last.op = "remove" /\ last.hr = "S_OK" /\ last.old = NULL
    /\ \E e \in EntryIds : entries[e].freed = 1
    /\ \A c \in Colls : xmlHashSize(cache[c]) = 0

\* no thread is inside cache_entry_add_ref or cache_entry_release
Quiescent == \A o \in Owners : thr.pc[o] \in {"none", "holding"}

\* C12: when owners that each hold one reference to the same entry release it
\* concurrently, in every interleaving the teardown runs at most once, only in
\* the thread whose decrement returned 0 (and then the count is 0 and nobody
\* holds a reference), no thread accesses the entry after another thread began
\* its teardown, and once every reference is released and every call has
\* returned the entry has been torn down exactly once.
C12_ConcurrentReleaseTearsDownOnce ==
    /\ entries[Shared].freed <= 1
    /\ ~thr.late
    /\ \A o \in Owners :
          thr.pc[o] \in TdPcs
          => /\ thr.loc[o] = 0
             /\ entries[Shared].ref = 0
             /\ \A t \in Owners \ {o} : thr.pc[t] \notin TdPcs \cup {"holding"}
    /\ (Quiescent /\ thr.adds > 0 /\ thr.rels = thr.adds) => entries[Shared].freed = 1

\* C12 witness: three owners held one reference each and all three released;
\* the thread whose decrement returned 0 is about to free the entry while
\* another thread, whose decrement returned more than 0, has not returned yet
C12_Witness ==
    /\ thr.adds = NumOwners /\ thr.rels = NumOwners
    /\ \E o, t \in Owners : /\ thr.pc[o] = "td_free"
                            /\ thr.pc[t] = "dec" /\ thr.loc[t] > 0

\* C13: for threads interleaving cache_entry_add_ref and cache_entry_release
\* on one entry through references they hold, once every call has returned
\* the count equals the number of add_ref calls minus the number of release
\* calls; the entry has been torn down exactly once if calls were made and
\* that difference is 0, and no teardown statement has run otherwise.
C13_CountIsAddsMinusReleases ==
    Quiescent =>
       /\ entries[Shared].ref = thr.adds - thr.rels
       /\ entries[Shared].ref = Cardinality({o \in Owners : thr.pc[o] = "holding"})
       /\ (thr.adds > 0 /\ thr.adds = thr.rels)
             => entries[Shared].freed = 1 /\ entries[Shared].docfreed = 1
       /\ (thr.adds = 0 \/ thr.adds > thr.rels)
             => entries[Shared].freed = 0 /\ entries[Shared].log = <<>>

\* C13 witness: all MaxAddRefs add_ref calls and as many release calls were
\* made, every call has returned, and the entry has been torn down
C13_Witness ==
    /\ Quiescent
    /\ thr.adds = MaxAddRefs /\ thr.rels = MaxAddRefs
    /\ entries[Shared].freed = 1

\* C13 witness: calls were made and the difference is not 0
C13_WitnessAlive ==
    /\ Quiescent
    /\ thr.adds = MaxAddRefs /\ thr.rels = MaxAddRefs - 2
    /\ entries[Shared].ref = 2

\* the number of slots of collection c that hold entry e
SlotsIn(c, e) == Cardinality({u \in Uris : cache[c].tab[u] = e})

\* C14: a Release that brings a collection's count to 0 releases every entry
\* the collection stores exactly once: an entry no one else holds is torn
\* down, an entry another collection shares survives with one reference less
\* and get() on that other collection still returns it; a Release that leaves
\* the count above 0 changes no table and no entry.
C14_CollectionTeardown ==
    [][(last'.op = "Release") =>
       \A c \in Colls :
          Release(c)
          => IF cref[c] = 1
             THEN /\ last'.out = 0
                  /\ \A e \in EntryIds :
                        /\ entries'[e].ref = entries[e].ref - SlotsIn(c, e)
                        /\ (SlotsIn(c, e) > 0 /\ entries[e].ref = SlotsIn(c, e))
                              => entries'[e].freed = 1
                        /\ (SlotsIn(c, e) = 0 \/ entries[e].ref > SlotsIn(c, e))
                              => entries'[e].freed = entries[e].freed
                  /\ \A c2 \in Colls \ {c} :
                        /\ cache'[c2] = cache[c2]
                        /\ \A u \in Uris :
                              (Live(c2) /\ cache[c2].tab[u] # NULL)
                              => /\ GetResult(c2, u, TRUE)' = <<"S_OK", cache[c2].tab[u]>>
                                 /\ entries'[cache[c2].tab[u]].freed = 0
             ELSE /\ last'.out > 0
                  /\ cache' = cache /\ entries' = entries
      ]_vars

\* C14 witness: a Release has brought a collection's count to 0; one entry it
\* held alone is torn down and one it shared survives with count 1 in the
\* other collection
C14_Witness ==
    /\ last.op = "Release" /\ last.out = 0
    /\ \E c \in Colls, u \in Uris, e \in EntryIds :
          /\ cref[c] > 0 /\ cache[c].tab[u] # NULL
          /\ entries[cache[c].tab[u]].ref = 1
          /\ entries[cache[c].tab[u]].freed = 0
          /\ e # cache[c].tab[u] /\ entries[e].freed = 1

\* C14 witness: a Release that leaves the count above 0, on a collection that
\* stores an entry
C14_WitnessStillHeld ==
    /\ last.op = "Release" /\ last.out > 0
    /\ \E c \in Colls : cref[c] = 1 /\ xmlHashSize(cache[c]) > 0

\* C15: the compiled schema of an entry is never freed while a reference to
\* the entry's backing document is still held (such as a view handed out by
\* get), and the backing document is not freed by the freeing of the compiled
\* schema: it is freed only once no reference to it is left.
C15_SchemaOutlivesDocumentHolders ==
    \A e \in EntryIds :
       entries[e].alloc
       => /\ entries[e].schema = "freed" => entries[e].docref = 0
          /\ entries[e].docfreed > 0 => entries[e].docref = 0

\* C16: get(uri) looks the exact uri up and changes no collection: without an
\* output slot it returns E_POINTER and changes nothing; for an absent uri it
\* returns S_OK with a null node and changes nothing; for a stored uri it
\* returns S_OK with a new view of that entry's document, and only the
\* document's reference count (and the views on it) grows: tables, collection
\* counts, the stored entry and its reference count stay as they were.
C16_GetLeavesCollection ==
    [][(last'.op = "get") =>
       \A c \in Colls, uri \in Uris, hasOut \in BOOLEAN :
          Get(c, uri, hasOut)
          => LET e == cache[c].tab[uri]
             IN  /\ cache' = cache /\ cref' = cref
                 /\ ~hasOut => /\ last'.hr = "E_POINTER" /\ last'.out = NULL
                               /\ entries' = entries
                 /\ (hasOut /\ e = NULL) => /\ last'.hr = "S_OK" /\ last'.out = NULL
                                            /\ entries' = entries
                 /\ (hasOut /\ e # NULL)
                       => /\ last'.hr = "S_OK" /\ last'.out = e
                          /\ entries' = [entries EXCEPT ![e].docref = @ + 1,
                                                        ![e].views = @ + 1]
                          /\ entries'[e].ref = entries[e].ref
                          /\ entries'[e].freed = 0 /\ entries'[e].docfreed = 0
      ]_vars

\* C16 witness: get has returned a view of a stored entry, whose document is
\* now referenced by the entry and by the view
C16_Witness ==
    /\ last.op = "get" /\ last.hr = "S_OK" /\ last.out # NULL
    /\ entries[last.out].views = 1 /\ entries[last.out].docref = 2
    /\ entries[last.out].ref >= 1

\* C16 witness: get without an output slot on a stored uri
C16_WitnessNoSlot ==
    /\ last.op = "get" /\ last.hr = "E_POINTER"
    /\ \E c \in Colls : xmlHashSize(cache[c]) = Cardinality(Uris)

\* the teardown statements of an entry of the given dialect, in order
TeardownOrder(type) ==
    IF type = "SCHEMA_TYPE_XSD"
    THEN <<"xmldoc_release", "schema_detach", "xmlSchemaFree", "heap_free">>
    ELSE <<"xmldoc_release", "heap_free">>

IsPrefix(s, t) == Len(s) <= Len(t) /\ \A i \in 1 .. Len(s) : s[i] = t[i]

\* C17: the teardown of an entry whose count reached 0 runs its statements in
\* this order: the entry's document reference is released first, then (Modern
\* only) the compiled schema is detached from the document and freed, and the
\* entry struct is freed last; a Legacy entry has no compiled schema and frees
\* none.  At every step the statements run so far are a prefix of that order,
\* and the entry's state is the one that prefix leaves.
C17_TeardownOrder ==
    LET E == entries[Shared]
        n == Len(E.log)
        xsd == E.type = "SCHEMA_TYPE_XSD"
    IN  /\ IsPrefix(E.log, TeardownOrder(E.type))
        /\ n > 0 => E.ref = 0
        /\ (E.docref = 0) <=> (n >= 1)
        /\ xsd => /\ E.sdoc <=> (n < 2)
                  /\ (E.schema = "freed") <=> (n >= 3)
                  /\ (E.freed = 1) <=> (n = 4)
        /\ ~xsd => /\ E.schema = "none"
                   /\ (E.freed = 1) <=> (n = 2)
        /\ E.freed <= 1

\* C17 witness: a Modern entry has been torn down, statement by statement
C17_Witness ==
    /\ entries[Shared].type = "SCHEMA_TYPE_XSD"
    /\ entries[Shared].freed = 1 /\ entries[Shared].schema = "freed"
    /\ Len(entries[Shared].log) = 4

\* C17 witness: a Legacy entry has been torn down
C17_WitnessLegacy ==
    /\ entries[Shared].type = "SCHEMA_TYPE_XDR"
    /\ entries[Shared].freed = 1 /\ Len(entries[Shared].log) = 2

\* C18: the detector classifies a document from its root element alone: a
\* root named "schema" in the W3C XML Schema namespace is Modern (XSD), a root
\* named "Schema" in the Microsoft XML-Data namespace is Legacy (XDR), and
\* everything else is Invalid: no root element, a root without a namespace, a
\* name in the other dialect's namespace, and names or namespaces that differ
\* from the expected ones only in letter case.
C18_DetectorClassifiesRoot ==
    det.type # "unknown"
    => det.type =
          IF det.root = <<"schema", "http://www.w3.org/2001/XMLSchema">>
          THEN "SCHEMA_TYPE_XSD"
          ELSE IF det.root = <<"Schema", "urn:schemas-microsoft-com:xml-data">>
          THEN "SCHEMA_TYPE_XDR"
          ELSE "SCHEMA_TYPE_INVALID"

\* C18 witness: a root named "Schema" (the Legacy name) in the W3C XML Schema
\* namespace has been classified Invalid
C18_Witness ==
    /\ det.root = <<"Schema", "http://www.w3.org/2001/XMLSchema">>
    /\ det.type = "SCHEMA_TYPE_INVALID"

\* C18 witnesses: the two dialects, no root, no namespace, letter case
C18_WitnessCases ==
    \/ det.root = <<"schema", "http://www.w3.org/2001/XMLSchema">> /\ det.type = "SCHEMA_TYPE_XSD"
    \/ det.root = NoRoot /\ det.type = "SCHEMA_TYPE_INVALID"

\* the (collection, key) slots of live collections that hold entry e
Slots(e) == {<<c, u>> \in Colls \X Uris : cref[c] > 0 /\ cache[c].tab[u] = e}

\* C19: where hash insertions succeed, the count of every constructed entry
\* equals the number of (collection, key) slots of live collections that hold
\* it, so every stored entry has a count of at least 1; an entry is torn down
\* (once) exactly when no slot holds it any more, and a freed collection
\* holds no slot.
C19_RefCountIsSlotCount ==
    /\ \A e \in EntryIds :
          entries[e].alloc
          => /\ entries[e].ref = Cardinality(Slots(e))
             /\ (entries[e].freed = 1) <=> (Slots(e) = {})
             /\ entries[e].freed <= 1
    /\ \A c \in Colls, u \in Uris :
          cache[c].tab[u] # NULL
          => /\ cref[c] > 0
             /\ entries[cache[c].tab[u]].alloc
             /\ entries[cache[c].tab[u]].ref >= 1

\* C19 witness: one entry is held by a slot in each of two collections (count
\* 2) and another entry has lost its last slot and is torn down
C19_Witness ==
    \E e, f \in EntryIds :
       /\ e # f
       /\ entries[e].ref = 2 /\ Cardinality(Slots(e)) = 2
       /\ entries[f].alloc /\ entries[f].freed = 1 /\ Slots(f) = {}

\* C20: the backing document of an entry holds one reference for the entry
\* (until the entry is torn down) plus one for every outstanding view handed
\* out by get; it is freed only when all of them are released, and at most
\* once: a view stays usable after its entry was removed, replaced or
\* destroyed with its collection.
C20_ViewKeepsDocumentAlive ==
    \A e \in EntryIds :
       entries[e].alloc
       => /\ entries[e].docref = (IF entries[e].freed = 0 THEN 1 ELSE 0) + entries[e].views
          /\ entries[e].docfreed <= 1
          /\ (entries[e].docfreed = 1) <=> (entries[e].docref = 0)
          /\ entries[e].views > 0 => entries[e].docfreed = 0

\* C20 witness: an entry has been torn down while a view of its document is
\* outstanding: the document lives on with the view's reference alone
C20_Witness ==
    \E e \in EntryIds :
       /\ entries[e].freed = 1 /\ entries[e].views = 1
       /\ entries[e].docref = 1 /\ entries[e].docfreed = 0

\* C20 witness: the last view of a torn-down Modern entry's document has been
\* released and the document is freed
C20_WitnessFreed ==
    /\ last.op = "releaseView"
    /\ \E e \in EntryIds :
          /\ entries[e].type = "SCHEMA_TYPE_XSD" /\ entries[e].freed = 1
          /\ entries[e].views = 0 /\ entries[e].docfreed = 1

=============================================================================
